---------------------------- MODULE Spec2Model ----------------------------
(***************************************************************************)
(* A model of the WeatherChart batch pipeline (scripts/1-..13-): the       *)
(* name-resolution joins of stages 3, 6, 8 and 10, the chunked streaming   *)
(* writers of stages 1, 3, 6, 8, 10 and 11, and the start-up handling of   *)
(* missing input files in every stage.  Of stages 2, 4, 5, 7, 9, 12 and 13 *)
(* the specification Spec follows only the start-up, up to the load of the *)
(* input; the sign corrector of stage 9 is followed by SpecGeo, the        *)
(* preprocessing of stage 13 by SpecPrep, the aggregations of stages 2 and *)
(* 5 by SpecGenres and SpecClimate, the country tables of stages 7 and 9   *)
(* by SpecTables, and the files the thirteen scripts hand to one another   *)
(* by SpecChain.                                                           *)
(*                                                                         *)
(* Text is modelled as a sequence of one-character strings, so that        *)
(* str.lower(), str.strip() and the regular-expression split of stage 3    *)
(* are computed character by character.  A missing value (pandas NaN /     *)
(* Python None) in a text column is the one-element sequence Null, which   *)
(* no text equals; a missing value in a numeric column is NoVal.           *)
(***************************************************************************)
EXTENDS Integers, Sequences, FiniteSets, TLC

VARIABLES
    stage,           \* which script is run, 1..13
    pc,              \* position of the script's control
    main_exists,     \* the large input file is on disk
    ref_exists,      \* the reference file is on disk (join stages)
    input,           \* data rows of the large input file, in file order
    ref,             \* data rows of the reference table, in file order
    chunk_size,      \* rows per batch of the chunked reader, 0 until it is set
    stale,           \* the output file as it was found when the script started
    out,             \* the output file: [exists, lines]
    lookup,          \* the exact-match dictionary {normalize(canonical): canonical}
    todo,            \* unique raw values the mapping loop has not yet visited
    mapping,         \* raw value -> canonical name or Null
    matched_count,   \* matched_count / matched
    unmatched_count, \* unmatched_count (stage 3 only)
    unmatched_list,  \* unmatched_list (stages 6, 8, 10)
    strategy,        \* raw value -> the branch of the loop body that decided it
    pos,             \* number of input rows the chunk iterator has delivered
    first_chunk,     \* first_chunk flag of the writer
    chunks_read,     \* number of chunks the reader has delivered
    writes,          \* number of to_csv calls that completed
    console,         \* messages the script printed itself
    raised,          \* exception that left the script uncaught, or "none"
    exit_code,       \* process exit status once the script has ended, else -1
    min_samples,     \* min_samples of filter_rare_genres (stage 13)
    df,              \* the DataFrame a non-streaming script works on (df, df_filtered)
    idx,             \* rows of df the iterrows loop of stage 9 has visited
    south_fixed,     \* south_fixed (stage 9)
    west_fixed,      \* west_fixed (stage 9)
    removed,         \* removed_genres as filter_rare_genres returned it (stage 13)
    test_rows,       \* positions of df that train_test_split put into X_test
    scaler,          \* statistics StandardScaler.fit_transform fitted, else Unfitted
    disk,            \* chain of stages: who wrote each file of the data directory
    reads            \* chain of stages: the files the stages have opened so far

vars == <<stage, pc, main_exists, ref_exists, input, ref, chunk_size, stale, out,
          lookup, todo, mapping, matched_count, unmatched_count, unmatched_list,
          strategy, pos, first_chunk, chunks_read, writes, console, raised, exit_code,
          min_samples, df, idx, south_fixed, west_fixed, removed, test_rows, scaler, disk, reads>>

---------------------------------------------------------------------------
(* Text literals of the source.                                            *)

\* keys of the overrides dictionaries
S_usa == <<"u","s","a">>
S_uk == <<"u","k">>
S_uae == <<"u","a","e">>
S_korea == <<"k","o","r","e","a">>
S_vietnam == <<"v","i","e","t","n","a","m">>
S_russia == <<"r","u","s","s","i","a">>
S_iran == <<"i","r","a","n">>
S_bolivia == <<"b","o","l","i","v","i","a">>
S_venezuela == <<"v","e","n","e","z","u","e","l","a">>
S_ireland == <<"i","r","e","l","a","n","d">>
\* values of the overrides dictionaries
S_United_States == <<"U","n","i","t","e","d"," ","S","t","a","t","e","s">>
S_United_Kingdom == <<"U","n","i","t","e","d"," ","K","i","n","g","d","o","m">>
S_United_Arab_Emirates == <<"U","n","i","t","e","d"," ","A","r","a","b"," ","E","m","i","r","a","t","e","s">>
S_South_Korea == <<"S","o","u","t","h"," ","K","o","r","e","a">>
S_Vietnam == <<"V","i","e","t","n","a","m">>
S_Russian_Federation == <<"R","u","s","s","i","a","n"," ","F","e","d","e","r","a","t","i","o","n">>
S_Iran__Islamic_Republic_of_ == <<"I","r","a","n"," ","(","I","s","l","a","m","i","c"," ","R","e","p","u","b","l","i","c"," ","o","f",")">>
S_Bolivia__Plurinational_State_of_ == <<"B","o","l","i","v","i","a"," ","(","P","l","u","r","i","n","a","t","i","o","n","a","l"," ","S","t","a","t","e"," ","o","f",")">>
S_Venezuela__Bolivarian_Republic_of_ == <<"V","e","n","e","z","u","e","l","a"," ","(","B","o","l","i","v","a","r","i","a","n"," ","R","e","p","u","b","l","i","c"," ","o","f",")">>
S_Republic_of_Ireland == <<"R","e","p","u","b","l","i","c"," ","o","f"," ","I","r","e","l","a","n","d">>
\* the alternatives of split_pattern, with the optional dot written out
Sep_comma == <<",">>
Sep_semicolon == <<";">>
Sep_vs == <<" ","v","s"," ">>
Sep_vs_dot == <<" ","v","s","."," ">>
Sep_feat == <<" ","f","e","a","t"," ">>
Sep_feat_dot == <<" ","f","e","a","t","."," ">>
Sep_ft == <<" ","f","t"," ">>
Sep_ft_dot == <<" ","f","t","."," ">>
Sep_amp == <<"&">>
Sep_with == <<" ","w","i","t","h"," ">>
\* str(float('nan'))
S_nan == <<"n","a","n">>

Null == <<"<NaN>">>
NoVal == 0

---------------------------------------------------------------------------
(* str.lower() and str.strip()                                             *)

\* the letters lower() changes
ToLower ==
    ("A" :> "a") @@ ("B" :> "b") @@ ("C" :> "c") @@ ("D" :> "d") @@ ("E" :> "e") @@
    ("F" :> "f") @@ ("G" :> "g") @@ ("H" :> "h") @@ ("I" :> "i") @@ ("J" :> "j") @@
    ("K" :> "k") @@ ("L" :> "l") @@ ("M" :> "m") @@ ("N" :> "n") @@ ("O" :> "o") @@
    ("P" :> "p") @@ ("Q" :> "q") @@ ("R" :> "r") @@ ("S" :> "s") @@ ("T" :> "t") @@
    ("U" :> "u") @@ ("V" :> "v") @@ ("W" :> "w") @@ ("X" :> "x") @@ ("Y" :> "y") @@
    ("Z" :> "z")
Whitespace == {" ", "\t"}

LowerChar(c) == IF c \in DOMAIN ToLower THEN ToLower[c] ELSE c

Lower(s) == [i \in DOMAIN s |-> LowerChar(s[i])]

RECURSIVE LStrip(_)
LStrip(s) == IF s # <<>> /\ s[1] \in Whitespace THEN LStrip(Tail(s)) ELSE s

RECURSIVE RStrip(_)
RStrip(s) ==
    IF s # <<>> /\ s[Len(s)] \in Whitespace THEN RStrip(SubSeq(s, 1, Len(s) - 1)) ELSE s

Strip(s) == RStrip(LStrip(s))

\* str(x): text is itself, a missing value prints as "nan"
Str(x) == IF x = Null THEN S_nan ELSE x

\* stage 3 normalizes inline: original_artist.lower().strip()
LowerStrip(s) == Strip(Lower(s))

\* normalize_name without the strip()
normalize_name_NoStrip(x) == Lower(Str(x))

\* normalize_name of stages 6, 8 and 10
normalize_name(x) == Strip(Lower(Str(x)))

---------------------------------------------------------------------------
(* Dictionaries and the exact-match lookup table.                          *)

\* d[k] = v
DictPut(d, k, v) == [x \in (DOMAIN d) \cup {k} |-> IF x = k THEN v ELSE d[x]]

Front(s) == SubSeq(s, 1, Len(s) - 1)
Last(s) == s[Len(s)]

\* Series.unique(): the distinct values in order of first appearance
RECURSIVE Unique(_)
Unique(s) ==
    IF s = <<>> THEN <<>>
    ELSE LET u == Unique(Front(s))
         IN  IF \E i \in DOMAIN u : u[i] = Last(s) THEN u ELSE Append(u, Last(s))

\* a dictionary in which the first name of a key stays
RECURSIVE BuildLookup_FirstWins(_)
BuildLookup_FirstWins(names) ==
    IF names = <<>> THEN <<>>
    ELSE LET d == BuildLookup_FirstWins(Front(names))
         IN  IF normalize_name(Last(names)) \in DOMAIN d THEN d
             ELSE DictPut(d, normalize_name(Last(names)), Last(names))

\* {normalize(c): c for c in names}: the comprehension assigns in iteration
\* order, so a later name replaces an earlier one with the same key
RECURSIVE BuildLookup(_)
BuildLookup(names) ==
    IF names = <<>> THEN <<>>
    ELSE DictPut(BuildLookup(Front(names)), normalize_name(Last(names)), Last(names))

RefNames(table) == [i \in DOMAIN table |-> table[i].name]

\* genre_artist_map of stage 3 iterates the whole column (after apply(str));
\* the *_country_map of stages 6, 8, 10 iterate column.unique()
genre_artist_map(table) ==
    BuildLookup([i \in DOMAIN table |-> Str(table[i].name)])
country_map(table) == BuildLookup(Unique(RefNames(table)))

overrides6 ==
    (S_usa :> S_United_States) @@ (S_uk :> S_United_Kingdom) @@
    (S_uae :> S_United_Arab_Emirates) @@ (S_korea :> S_South_Korea) @@
    (S_vietnam :> S_Vietnam)

overrides10 ==
    (S_usa :> S_United_States) @@ (S_uk :> S_United_Kingdom) @@
    (S_uae :> S_United_Arab_Emirates) @@ (S_korea :> S_South_Korea) @@
    (S_vietnam :> S_Vietnam) @@ (S_russia :> S_Russian_Federation) @@
    (S_iran :> S_Iran__Islamic_Republic_of_) @@
    (S_bolivia :> S_Bolivia__Plurinational_State_of_) @@
    (S_venezuela :> S_Venezuela__Bolivarian_Republic_of_) @@
    (S_ireland :> S_Republic_of_Ireland)

---------------------------------------------------------------------------
(* split_pattern of stage 3:                                               *)
(*   \s*(?:,|;| vs\.? | feat\.? | ft\.? |&| with )\s*   (IGNORECASE)       *)

Alternatives ==
    {Sep_comma, Sep_semicolon, Sep_vs, Sep_vs_dot, Sep_feat, Sep_feat_dot,
     Sep_ft, Sep_ft_dot, Sep_amp, Sep_with}

\* sep occurs in s at position j, letters compared without regard to case
MatchesAt(sep, s, j) ==
    /\ j + Len(sep) - 1 <= Len(s)
    /\ \A k \in DOMAIN sep : LowerChar(s[j + k - 1]) = sep[k]

\* the pattern matches from position i: a run of whitespace, then an alternative
PatternStartsAt(s, i) ==
    \E j \in i..Len(s) :
        /\ \A k \in i..(j - 1) : s[k] \in Whitespace
        /\ \E sep \in Alternatives : MatchesAt(sep, s, j)

\* split(s)[-1]: the text after the last separator instead of parts[0]
FirstPart_LastSegment(s) ==
    LET ends == {j \in DOMAIN s : \E sep \in Alternatives :
                    j - Len(sep) + 1 >= 1 /\ MatchesAt(sep, s, j - Len(sep) + 1)}
    IN  IF ends = {} THEN s
        ELSE SubSeq(s, (CHOOSE j \in ends : \A k \in ends : j >= k) + 1, Len(s))

\* split_pattern.split(s)[0]: the text before the leftmost match, or all of s
FirstPart(s) ==
    LET starts == {i \in DOMAIN s : PatternStartsAt(s, i)}
    IN  IF starts = {} THEN s
        ELSE SubSeq(s, 1, (CHOOSE i \in starts : \A j \in starts : i <= j) - 1)

---------------------------------------------------------------------------
(* The body of each mapping loop, for one raw value: the canonical name    *)
(* assigned and the branch that assigned it.                               *)

Outcome(c, b) == [canon |-> c, by |-> b]

\* 3-join_datasets.py, loop over unique_artists_series
ResolveArtist(lk, original_artist) ==
    IF original_artist = Null
    THEN Outcome(Null, "not_text")
    ELSE LET normalized_artist == LowerStrip(original_artist)
             primary_artist == Strip(FirstPart(normalized_artist))
         IN  IF normalized_artist \in DOMAIN lk
             THEN Outcome(lk[normalized_artist], "exact")
             ELSE IF primary_artist \in DOMAIN lk
                  THEN Outcome(lk[primary_artist], "split")
                  ELSE Outcome(Null, "none")

\* stage 6 looking the override target up as written, not renormalized
ResolveClimate_NoRenormalize(lk, region) ==
    LET norm == normalize_name(region)
    IN  IF norm \in DOMAIN overrides6 /\ overrides6[norm] \in DOMAIN lk
        THEN Outcome(lk[overrides6[norm]], "override")
        ELSE IF norm \in DOMAIN lk
             THEN Outcome(lk[norm], "exact")
             ELSE Outcome(Null, "none")

\* 6-join_climate.py, loop over unique_regions: overrides are tried first
ResolveClimate(lk, region) ==
    LET norm == normalize_name(region)
    IN  IF /\ norm \in DOMAIN overrides6
           /\ Lower(overrides6[norm]) \in DOMAIN lk
           /\ normalize_name(overrides6[norm]) \in DOMAIN lk
        THEN Outcome(lk[normalize_name(overrides6[norm])], "override")
        ELSE IF norm \in DOMAIN lk
             THEN Outcome(lk[norm], "exact")
             ELSE Outcome(Null, "none")

\* 8-join_economy.py, loop over unique_regions
ResolveEconomy(lk, region) ==
    LET norm == normalize_name(region)
    IN  IF norm \in DOMAIN lk
        THEN Outcome(lk[norm], "exact")
        ELSE Outcome(Null, "none")

\* stage 10 with the override table consulted before the exact match
ResolveLatitude_OverrideFirst(lk, region) ==
    LET norm == normalize_name(region)
    IN  IF /\ norm \in DOMAIN overrides10
           /\ normalize_name(overrides10[norm]) \in DOMAIN lk
        THEN Outcome(lk[normalize_name(overrides10[norm])], "override")
        ELSE IF norm \in DOMAIN lk
             THEN Outcome(lk[norm], "exact")
             ELSE Outcome(Null, "none")

\* 10-join_latitude.py, loop over unique_regions
ResolveLatitude(lk, region) ==
    LET norm == normalize_name(region)
    IN  IF norm \in DOMAIN lk
        THEN Outcome(lk[norm], "exact")
        ELSE IF /\ norm \in DOMAIN overrides10
                /\ normalize_name(overrides10[norm]) \in DOMAIN lk
             THEN Outcome(lk[normalize_name(overrides10[norm])], "override")
             ELSE Outcome(Null, "none")

---------------------------------------------------------------------------
(* Tables.  An input row is [key, month, genre, temp, unemp, pop]: key is  *)
(* the raw join key of the stage (artist in stage 3, region elsewhere),    *)
(* month the month of the row's date, genre/temp/unemp the columns stage 11*)
(* filters on (track_genre, avg_temp, unemployment_rate) and pop the       *)
(* population column that stage 8 joined in.  A reference row              *)
(* is [name, month, val]: the canonical name, the month (climate table     *)
(* only) and val, standing for the columns the reference table contributes.*)

JoinStages == {3, 6, 8, 10}
RegionStages == {6, 8, 10}
Stages == {1, 3, 6, 8, 10, 11}
AllStages == 1..13
\* stages that read a second file: the reference table of a join, and the
\* artist list stage 4 compares against
TwoInputStages == JoinStages \cup {4}

Keys(rows) == [i \in DOMAIN rows |-> rows[i].key]

RECURSIVE Flatten(_)
Flatten(ss) == IF ss = <<>> THEN <<>> ELSE Flatten(Front(ss)) \o Last(ss)

RECURSIVE SelectRows(_, _)
SelectRows(rows, keep) ==
    IF rows = <<>> THEN <<>>
    ELSE LET r == SelectRows(Front(rows), keep)
         IN  IF Len(rows) \in keep THEN Append(r, Last(rows)) ELSE r

Joined(r, v) ==
    [key |-> r.key, month |-> r.month, genre |-> r.genre, temp |-> r.temp,
     unemp |-> r.unemp, pop |-> r.pop, val |-> v]

\* merge(chunk, mapping_df, how='left'): mapping_df has one row per unique raw
\* value, so the merge adds the column join_key = mp[key]
join_key(mp, r) == IF r.key \in DOMAIN mp THEN mp[r.key] ELSE Null

\* the reference rows the second merge pairs with r: equal name, and in
\* stage 6 (on=['join_country', 'month']) equal month as well.  pandas pairs
\* a missing key with a missing key, so a row whose join key is null is
\* paired with the reference rows whose name is missing
Partners(st, mp, table, r) ==
    {i \in DOMAIN table :
        /\ table[i].name = join_key(mp, r)
        /\ st = 6 => table[i].month = r.month}

\* how='left': a row without partner is kept once with the reference columns
\* missing; a row with partners appears once per partner, in table order
MergeRow(st, mp, table, r) ==
    LET ps == Partners(st, mp, table, r)
    IN  IF ps = {} THEN <<Joined(r, NoVal)>>
        ELSE LET hit == SelectRows(table, ps)
             IN  [i \in DOMAIN hit |-> Joined(r, hit[i].val)]

\* the merges followed by drop_duplicates() on the chunk
MergeChunk_DropDuplicates(st, mp, table, chunk) ==
    Unique(Flatten([i \in DOMAIN chunk |-> MergeRow(st, mp, table, chunk[i])]))

\* the two merges of a join stage applied to a chunk; row order is the chunk's
MergeChunk(st, mp, table, chunk) ==
    Flatten([i \in DOMAIN chunk |-> MergeRow(st, mp, table, chunk[i])])

\* stage 1: usecols=columns_to_keep
Project(chunk) == [i \in DOMAIN chunk |-> [key |-> chunk[i].key, month |-> chunk[i].month]]

\* stage 11: chunk.dropna(subset=['track_genre', 'avg_temp', 'unemployment_rate'])
DropNa(chunk) ==
    SelectRows(chunk, {i \in DOMAIN chunk :
        chunk[i].genre # NoVal /\ chunk[i].temp # NoVal /\ chunk[i].unemp # NoVal})

\* what the loop body of a stage hands to to_csv for one chunk
Transform(st, mp, table, chunk) ==
    IF st = 1 THEN Project(chunk)
    ELSE IF st = 11 THEN DropNa(chunk)
    ELSE MergeChunk(st, mp, table, chunk)

---------------------------------------------------------------------------
(* The output file and DataFrame.to_csv(output_file, mode=, header=).      *)

Header == [kind |-> "header"]
Line(r) == [kind |-> "row", row |-> r]
Lines(rows) == [i \in DOMAIN rows |-> Line(rows[i])]

NoFile == [exists |-> FALSE, lines |-> <<>>]
File(ls) == [exists |-> TRUE, lines |-> ls]

\* mode='a' for every chunk
Mode_AlwaysAppend(first) == "a"

\* mode = 'w' if first_chunk else 'a'
Mode(first) == IF first THEN "w" ELSE "a"
\* header = first_chunk
WithHeader(first) == first

\* the lines one to_csv call emits
Emitted(rows, header) == (IF header THEN <<Header>> ELSE <<>>) \o Lines(rows)

\* the file after the first n emitted lines have reached it: mode 'w'
\* truncates on open, mode 'a' keeps what is there
Written(f, mode, emitted, n) ==
    File((IF mode = "w" THEN <<>> ELSE f.lines) \o SubSeq(emitted, 1, n))

to_csv(f, rows, mode, header) ==
    Written(f, mode, Emitted(rows, header), Len(Emitted(rows, header)))

\* the next chunk the reader delivers after p rows
Chunk(rows, p, size) ==
    SubSeq(rows, p + 1, IF p + size <= Len(rows) THEN p + size ELSE Len(rows))

---------------------------------------------------------------------------
(* The files a run may find.  Raw keys as they occur in the large input    *)
(* (mixed case, surrounding blanks, composite artist strings) and          *)
(* canonical names as they occur in the reference tables.                  *)

Raw_UK == <<" "," ","U","K"," ">>
Raw_KOREA == <<" ","K","O","R","E","A">>
Raw_PERU == <<"P","E","R","U"," ">>
Raw_Atlantis == <<"A","t","l","a","n","t","i","s">>
Raw_Drake_Rihanna == <<"D","r","a","k","e",","," ","R","i","h","a","n","n","a">>
Raw_Coldplay_feat_Rihanna == <<"C","o","l","d","p","l","a","y"," ","f","e","a","t","."," ","R","i","h","a","n","n","a">>
Raw_RIHANNA_With_Drake == <<"R","I","H","A","N","N","A"," ","W","i","t","h"," ","D","r","a","k","e">>
Raw_DRAKE == <<" ","D","R","A","K","E">>
Ref_Drake == <<"D","r","a","k","e">>
Ref_Coldplay == <<"C","o","l","d","p","l","a","y">>
Ref_Rihanna == <<"R","i","h","a","n","n","a">>
Ref_Peru == <<"P","e","r","u">>
Ref_peru == <<"p","e","r","u">>
Ref_Korea == <<"K","o","r","e","a">>
Ref_KOREA == <<"K","O","R","E","A">>

MaxRows == 2
MaxRef == 2
MaxChunk == 2

InputMonths == {1, 2}
ClimateMonth == 1

SeqsUpTo(S, n) == UNION {[1..k -> S] : k \in 0..n}

RawKeys(st) ==
    CASE st = 1  -> {Raw_PERU, Raw_Atlantis}
      [] st = 3  -> {Raw_Drake_Rihanna, Raw_Coldplay_feat_Rihanna,
                     Raw_RIHANNA_With_Drake, Raw_DRAKE, Null}
      [] st = 6  -> {Raw_UK, Raw_KOREA}
      [] st = 8  -> {Raw_UK, Raw_PERU}
      [] st = 10 -> {Raw_UK, Raw_KOREA}
      [] st = 11 -> {Raw_PERU}
      [] OTHER   -> {}

CanonicalNames(st) ==
    CASE st = 3  -> {Ref_Drake, Ref_Coldplay, Ref_Rihanna}
      [] st = 6  -> {S_United_Kingdom, S_South_Korea, Ref_Korea}
      [] st = 8  -> {Ref_Peru, Ref_peru, S_United_Kingdom}
      [] st = 10 -> {S_United_Kingdom, S_South_Korea, Ref_Korea}
      [] OTHER   -> {}

InputRows(st) ==
    [key : RawKeys(st),
     month : IF st = 6 THEN InputMonths ELSE {1},
     genre : IF st = 11 THEN {NoVal, 1} ELSE {NoVal},
     temp : IF st = 11 THEN {NoVal, 1} ELSE {NoVal},
     unemp : IF st = 11 THEN {NoVal, 1} ELSE {NoVal},
     pop : IF st = 11 THEN {NoVal, 1} ELSE {NoVal}]

InputFiles(st) == SeqsUpTo(InputRows(st), MaxRows)

\* a reference table: val numbers the rows, so every row's contribution differs
RefTable(names) ==
    [i \in DOMAIN names |-> [name |-> names[i], month |-> ClimateMonth, val |-> i]]

Distinct(s) == \A i, j \in DOMAIN s : s[i] = s[j] => i = j

\* climate tables that list Korea in two spellings, with and without South
\* Korea
SpellingsOfKorea ==
    {<<Ref_Korea, Ref_KOREA>>, <<Ref_KOREA, Ref_Korea>>,
     <<Ref_Korea, Ref_KOREA, S_South_Korea>>, <<S_South_Korea, Ref_KOREA, Ref_Korea>>}

\* artist_genres.csv and country_monthly_temps.csv come out of a groupby, one
\* row per artist / per (country, month), none with a missing name;
\* country_economy.csv and country_latitude.csv are written by stages 7 and 9
\* without removing repeated countries or rows whose country cell is empty
RefFiles(st) ==
    {RefTable(names) : names \in
        IF st \in {3, 6}
        THEN {s \in SeqsUpTo(CanonicalNames(st), MaxRef) : Distinct(s)}
                 \cup (IF st = 6 THEN SpellingsOfKorea ELSE {})
        ELSE SeqsUpTo(CanonicalNames(st) \cup {Null}, MaxRef)}

StaleLine == [kind |-> "stale"]
StaleFiles == {NoFile, File(<<Header, StaleLine>>)}

\* no statistics fitted yet
Unfitted == [fitted |-> FALSE]

\* the variables of a script before its first statement, nothing computed yet
Blank ==
    /\ chunk_size = 0
    /\ out = stale
    /\ df = <<>>
    /\ idx = 0
    /\ south_fixed = 0
    /\ west_fixed = 0
    /\ removed = {}
    /\ test_rows = {}
    /\ scaler = Unfitted
    /\ lookup = <<>>
    /\ todo = <<>>
    /\ mapping = <<>>
    /\ strategy = <<>>
    /\ matched_count = 0
    /\ unmatched_count = 0
    /\ unmatched_list = <<>>
    /\ pos = 0
    /\ first_chunk = TRUE
    /\ chunks_read = 0
    /\ writes = 0
    /\ console = <<>>
    /\ raised = "none"
    /\ exit_code = -1

\* one script is about to run on its own
Fresh == pc = "start" /\ disk = <<>> /\ reads = {} /\ Blank

Init ==
    /\ stage \in AllStages
    /\ main_exists \in BOOLEAN
    /\ ref_exists \in (IF stage \in TwoInputStages THEN BOOLEAN ELSE {FALSE})
    /\ input \in (IF main_exists /\ stage \in Stages THEN InputFiles(stage) ELSE {<<>>})
    /\ ref \in (IF ref_exists /\ stage \in JoinStages THEN RefFiles(stage) ELSE {<<>>})
    /\ stale \in StaleFiles
    /\ min_samples = 1
    /\ Fresh

---------------------------------------------------------------------------
(* Actions.                                                                *)

files == <<stage, main_exists, ref_exists, input, ref, stale, min_samples>>
\* what the non-streaming scripts work on
chain == <<disk, reads>>
work == <<df, idx, south_fixed, west_fixed, removed, test_rows, scaler, chain>>
mapvars == <<lookup, todo, mapping, strategy, matched_count, unmatched_count,
             unmatched_list>>
streamvars == <<pos, first_chunk, chunks_read, writes>>

\* an exception nothing catches: the interpreter ends the script with status 1
Uncaught(exc) ==
    /\ pc' = "uncaught"
    /\ raised' = exc
    /\ exit_code' = 1
    /\ UNCHANGED <<console, chunk_size>>

Proceed(next) ==
    /\ pc' = next
    /\ UNCHANGED <<console, raised, exit_code, chunk_size>>

\* chunk_size = ..., set before the chunk loop is entered: 100000 or 500000
\* in the scripts, any size from 1 to MaxChunk here
EnterStream ==
    /\ pc' = "stream"
    /\ chunk_size' \in 1..MaxChunk

\* 1-filter_charts.py: pd.read_csv(input_file, ...) opens the file before the try
Start1 ==
    /\ stage = 1 /\ pc = "start"
    /\ IF main_exists
       THEN EnterStream /\ UNCHANGED <<console, raised, exit_code>>
       ELSE Uncaught("FileNotFoundError")
    /\ UNCHANGED <<files, work, mapvars, streamvars, out>>

\* 3-join_datasets.py: existence checks that raise, then the lookup table and
\* the unique artists
Start3 ==
    /\ stage = 3 /\ pc = "start"
    /\ IF main_exists /\ ref_exists
       THEN /\ lookup' = genre_artist_map(ref)
            /\ todo' = Unique(Keys(input))
            /\ Proceed("map")
       ELSE /\ Uncaught("FileNotFoundError")
            /\ UNCHANGED <<lookup, todo>>
    /\ UNCHANGED <<files, work, mapping, strategy, matched_count, unmatched_count,
                   unmatched_list, streamvars, out>>

\* stages 6, 8, 10: read_csv of the reference file and of the region column,
\* neither inside a try
LoadRegions ==
    /\ pc = "start"
    /\ IF main_exists /\ ref_exists
       THEN /\ lookup' = country_map(ref)
            /\ todo' = Unique(Keys(input))
            /\ Proceed("map")
       ELSE /\ Uncaught("FileNotFoundError")
            /\ UNCHANGED <<lookup, todo>>
    /\ UNCHANGED <<files, work, mapping, strategy, matched_count, unmatched_count,
                   unmatched_list, streamvars, out>>

Start6 == stage = 6 /\ LoadRegions
Start8 == stage = 8 /\ LoadRegions
Start10 == stage = 10 /\ LoadRegions

\* stage 11 without the existence check
Start11_NoCheck ==
    /\ stage = 11 /\ pc = "start"
    /\ EnterStream
    /\ UNCHANGED <<files, work, mapvars, streamvars, out, console, raised, exit_code>>

\* 11-create_training_set.py: existence check, print, exit(1)
Start11 ==
    /\ stage = 11 /\ pc = "start"
    /\ IF main_exists
       THEN EnterStream /\ UNCHANGED <<console, raised, exit_code>>
       ELSE /\ console' = Append(console, "input not found")
            /\ exit_code' = 1
            /\ pc' = "exited"
            /\ UNCHANGED <<raised, chunk_size>>
    /\ UNCHANGED <<files, work, mapvars, streamvars, out>>

\* the except clause inside the loop: the loop goes on
AfterException_Continue == "stream"

\* where control goes when an except clause that only prints has run: past
\* the try statement, which is the end of the script
AfterException == "aborted"

\* 2-process_genres.py: the try around read_csv catches ValueError only
Start2 ==
    /\ stage = 2 /\ pc = "start"
    /\ IF main_exists THEN Proceed("loaded") ELSE Uncaught("FileNotFoundError")
    /\ UNCHANGED <<files, work, mapvars, streamvars, out>>

\* except Exception as e: print(...)
Caught ==
    /\ console' = Append(console, "error")
    /\ pc' = AfterException
    /\ exit_code' = 0
    /\ UNCHANGED <<raised, chunk_size>>

\* 4-analyze_missing.py: the artist list is read outside the try, the dataset
\* inside it
Start4 ==
    /\ stage = 4 /\ pc = "start"
    /\ IF ~ref_exists THEN Uncaught("FileNotFoundError")
       ELSE IF ~main_exists THEN Caught
       ELSE Proceed("loaded")
    /\ UNCHANGED <<files, work, mapvars, streamvars, out>>

\* 5-process_climate.py: read_csv inside try / except Exception
Start5 ==
    /\ stage = 5 /\ pc = "start"
    /\ IF main_exists THEN Proceed("loaded") ELSE Caught
    /\ UNCHANGED <<files, work, mapvars, streamvars, out>>

\* 7-process_countries.py: read_csv at top level
Start7 ==
    /\ stage = 7 /\ pc = "start"
    /\ IF main_exists THEN Proceed("loaded") ELSE Uncaught("FileNotFoundError")
    /\ UNCHANGED <<files, work, mapvars, streamvars, out>>

\* 9-process_latitude.py: the try around read_csv catches UnicodeDecodeError only
Start9 ==
    /\ stage = 9 /\ pc = "start"
    /\ IF main_exists THEN Proceed("loaded") ELSE Uncaught("FileNotFoundError")
    /\ UNCHANGED <<files, work, mapvars, streamvars, out>>

\* 12-eda.py: except Exception: print, exit(1)
Start12 ==
    /\ stage = 12 /\ pc = "start"
    /\ IF main_exists
       THEN Proceed("loaded")
       ELSE /\ console' = Append(console, "error")
            /\ exit_code' = 1
            /\ pc' = "exited"
            /\ UNCHANGED <<raised, chunk_size>>
    /\ UNCHANGED <<files, work, mapvars, streamvars, out>>

\* 13-preprocess.py, main(): existence check, log, return
Start13 ==
    /\ stage = 13 /\ pc = "start"
    /\ IF main_exists
       THEN Proceed("loaded")
       ELSE /\ console' = Append(console, "input not found")
            /\ exit_code' = 0
            /\ pc' = "exited"
            /\ UNCHANGED <<raised, chunk_size>>
    /\ UNCHANGED <<files, work, mapvars, streamvars, out>>

\* the assignment region_map[raw] = ... of one loop iteration
Assign(o) ==
    /\ mapping' = DictPut(mapping, Head(todo), o.canon)
    /\ strategy' = DictPut(strategy, Head(todo), o.by)
    /\ todo' = Tail(todo)

\* one iteration of the loop of stage 3, which counts unmatched values
MapArtist ==
    /\ stage = 3 /\ pc = "map" /\ todo # <<>>
    /\ LET o == ResolveArtist(lookup, Head(todo))
       IN  /\ Assign(o)
           /\ IF o.by \in {"exact", "split"}
              THEN matched_count' = matched_count + 1 /\ UNCHANGED unmatched_count
              ELSE unmatched_count' = unmatched_count + 1 /\ UNCHANGED matched_count
    /\ UNCHANGED <<files, work, lookup, unmatched_list, streamvars, out, pc, console,
                   raised, exit_code, chunk_size>>

\* the loop of stages 6, 8, 10 without the unmatched_list.append
MapRegion_NoReport(o) ==
    /\ pc = "map" /\ todo # <<>>
    /\ Assign(o)
    /\ IF o.by \in {"exact", "override"}
       THEN matched_count' = matched_count + 1
       ELSE UNCHANGED matched_count
    /\ UNCHANGED <<files, work, lookup, unmatched_count, unmatched_list, streamvars, out,
                   pc, console, raised, exit_code, chunk_size>>

\* one iteration of the loop of stages 6, 8, 10, which list unmatched values
MapRegion(o) ==
    /\ pc = "map" /\ todo # <<>>
    /\ Assign(o)
    /\ IF o.by \in {"exact", "override"}
       THEN matched_count' = matched_count + 1 /\ UNCHANGED unmatched_list
       ELSE unmatched_list' = Append(unmatched_list, Head(todo))
            /\ UNCHANGED matched_count
    /\ UNCHANGED <<files, work, lookup, unmatched_count, streamvars, out, pc, console,
                   raised, exit_code, chunk_size>>

MapClimate == stage = 6 /\ todo # <<>> /\ MapRegion(ResolveClimate(lookup, Head(todo)))
MapEconomy == stage = 8 /\ todo # <<>> /\ MapRegion(ResolveEconomy(lookup, Head(todo)))
MapLatitude == stage = 10 /\ todo # <<>> /\ MapRegion(ResolveLatitude(lookup, Head(todo)))

\* the statistics printed after the loop; stage 3 divides by the number of
\* unique artists outside any try
MapDone ==
    /\ stage \in JoinStages /\ pc = "map" /\ todo = <<>>
    /\ IF stage = 3 /\ Len(Unique(Keys(input))) = 0
       THEN Uncaught("ZeroDivisionError")
       ELSE /\ EnterStream
            /\ console' = Append(console, "mapping statistics")
            /\ UNCHANGED <<raised, exit_code>>
    /\ UNCHANGED <<files, work, mapvars, streamvars, out>>

\* the reader has a chunk to deliver: rows are left, or the file has no data
\* row and the reader may deliver one empty first chunk
MoreChunks == pos < Len(input) \/ (Len(input) = 0 /\ chunks_read = 0)

NextChunk == Chunk(input, pos, chunk_size)
NextRows == Transform(stage, mapping, ref, NextChunk)

\* stage 11 writes a chunk only if rows are left after the filter
Skipped == stage = 11 /\ NextRows = <<>>

\* one iteration of the chunk loop
StreamChunk ==
    /\ pc = "stream" /\ MoreChunks
    /\ pos' = pos + Len(NextChunk)
    /\ chunks_read' = chunks_read + 1
    /\ IF Skipped
       THEN UNCHANGED <<out, first_chunk, writes>>
       ELSE /\ out' = to_csv(out, NextRows, Mode(first_chunk), WithHeader(first_chunk))
            /\ first_chunk' = FALSE
            /\ writes' = writes + 1
    /\ UNCHANGED <<files, work, mapvars, pc, console, raised, exit_code, chunk_size>>

\* an exception while the next chunk is read or transformed, before to_csv
\* has opened the output file
ChunkFails ==
    /\ pc = "stream" /\ MoreChunks
    /\ Caught
    /\ UNCHANGED <<files, work, mapvars, streamvars, out>>

\* an exception inside to_csv, after n of the chunk's lines reached the file
WriteFails ==
    /\ pc = "stream" /\ MoreChunks /\ ~Skipped
    /\ LET emitted == Emitted(NextRows, WithHeader(first_chunk))
       IN  \E n \in 0..(Len(emitted) - 1) :
               out' = Written(out, Mode(first_chunk), emitted, n)
    /\ Caught
    /\ UNCHANGED <<files, work, mapvars, streamvars>>

\* the loop of stages 1, 3, 6, 8, 10 is exhausted
Finish ==
    /\ stage # 11 /\ pc = "stream" /\ pos = Len(input)
    /\ console' = Append(console, "complete")
    /\ pc' = "done"
    /\ exit_code' = 0
    /\ UNCHANGED <<files, work, mapvars, streamvars, out, raised, chunk_size>>

\* stage 11 after the loop: the retention rate divides by total_rows inside the
\* try, then the validation step looks for the output file
Finish11 ==
    /\ stage = 11 /\ pc = "stream" /\ pos = Len(input)
    /\ IF pos = 0
       THEN /\ console' = console \o <<"complete", "error">>
            /\ pc' = AfterException
       ELSE /\ console' = console \o
                <<"complete", IF out.exists THEN "validated" ELSE "not created">>
            /\ pc' = "done"
    /\ exit_code' = 0
    /\ UNCHANGED <<files, work, mapvars, streamvars, out, raised, chunk_size>>

Next ==
    \/ Start1 \/ Start3 \/ Start6 \/ Start8 \/ Start10 \/ Start11
    \/ Start2 \/ Start4 \/ Start5 \/ Start7 \/ Start9 \/ Start12 \/ Start13
    \/ MapArtist \/ MapClimate \/ MapEconomy \/ MapLatitude \/ MapDone
    \/ StreamChunk \/ ChunkFails \/ WriteFails
    \/ Finish \/ Finish11

Spec == Init /\ [][Next]_vars

---------------------------------------------------------------------------
(* Properties of the mapping loops (stages 3, 6, 8, 10).                   *)

\* raw values the loop has decided, without the missing value
Decided == {raw \in DOMAIN mapping : raw # Null}

\* canonical names of the reference table that normalize like raw
SameNormalized(raw) ==
    {ref[i].name : i \in {j \in DOMAIN ref : LowerStrip(ref[j].name) = LowerStrip(raw)}}

\* the overrides dictionary of the running stage
Overrides == IF stage = 6 THEN overrides6 ELSE IF stage = 10 THEN overrides10 ELSE <<>>

\* raw normalizes to an alias whose target, normalized, is a normalized
\* canonical name of the reference table
AliasWithTarget(raw) ==
    /\ LowerStrip(raw) \in DOMAIN Overrides
    /\ SameNormalized(Overrides[LowerStrip(raw)]) # {}

C3_OverrideTargetRenormalized ==
    stage \in {6, 10} =>
        \A raw \in Decided :
            (LowerStrip(raw) \in DOMAIN Overrides /\ SameNormalized(raw) = {}) =>
                IF AliasWithTarget(raw)
                THEN mapping[raw] \in SameNormalized(Overrides[LowerStrip(raw)])
                ELSE mapping[raw] = Null

\* "  UK " was resolved to "United Kingdom"
C3_Witness ==
    /\ stage \in {6, 10}
    /\ Raw_UK \in DOMAIN mapping
    /\ LowerStrip(Raw_UK) = S_uk
    /\ mapping[Raw_UK] = S_United_Kingdom

\* s is t, then optional blanks, then a separator of split_pattern, then more
SegmentBefore(t, s) ==
    \E j \in (Len(t) + 1)..Len(s) :
        /\ SubSeq(s, 1, Len(t)) = t
        /\ \A k \in (Len(t) + 1)..(j - 1) : s[k] = " "
        /\ \E sep \in Alternatives : MatchesAt(sep, s, j)

S_drake == <<"d","r","a","k","e">>
S_coldplay == <<"c","o","l","d","p","l","a","y">>
S_rihanna == <<"r","i","h","a","n","n","a">>

\* the primary artist the claim names for the composite strings of the model
PrimaryOf(raw) ==
    CASE raw = Raw_Drake_Rihanna -> S_drake
      [] raw = Raw_Coldplay_feat_Rihanna -> S_coldplay
      [] raw = Raw_RIHANNA_With_Drake -> S_rihanna
      [] OTHER -> LowerStrip(raw)

\* C4: in stage 3 a raw artist without exact match is resolved through its
\* first segment only: "Drake, Rihanna" through "drake", "Coldplay feat.
\* Rihanna" through "coldplay" ("RIHANNA With Drake" through "rihanna"); it
\* gets the reference artist normalizing to that segment when there is one and
\* null otherwise, whether or not a later segment is a reference artist.
C4_FirstSegmentOnly ==
    stage = 3 =>
        \A raw \in Decided :
            SameNormalized(raw) = {} =>
                /\ IF SameNormalized(PrimaryOf(raw)) # {}
                   THEN mapping[raw] \in SameNormalized(PrimaryOf(raw))
                   ELSE mapping[raw] = Null
                /\ mapping[raw] # Null =>
                       SegmentBefore(LowerStrip(mapping[raw]), LowerStrip(raw))

\* "Drake, Rihanna" resolved to Drake by the split while Rihanna is a
\* reference artist too
C4_Witness ==
    /\ stage = 3
    /\ Raw_Drake_Rihanna \in DOMAIN mapping
    /\ strategy[Raw_Drake_Rihanna] = "split"
    /\ mapping[Raw_Drake_Rihanna] = Ref_Drake
    /\ \E i \in DOMAIN ref : ref[i].name = Ref_Rihanna

SeqToSet(s) == {s[i] : i \in DOMAIN s}

\* every strategy of the running stage fails on raw
AllStrategiesFail(raw) ==
    \/ raw = Null
    \/ /\ SameNormalized(raw) = {}
       /\ stage \in {6, 10} => ~AliasWithTarget(raw)
       /\ stage = 3 => SameNormalized(PrimaryOf(raw)) = {}

MappingBuilt == stage \in JoinStages /\ pc \in {"stream", "done", "aborted"}

---------------------------------------------------------------------------
(* Properties of the chunked writers (stages 1, 3, 6, 8, 10, 11).          *)

\* the data rows of the output file, in file order
RECURSIVE DataRows(_)
DataRows(ls) ==
    IF ls = <<>> THEN <<>>
    ELSE IF Last(ls).kind = "row"
         THEN Append(DataRows(Front(ls)), Last(ls).row)
         ELSE DataRows(Front(ls))

\* the columns of an output row that come from the input row
InputPart(o) ==
    [key |-> o.key, month |-> o.month, genre |-> o.genre, temp |-> o.temp,
     unemp |-> o.unemp, pop |-> o.pop]

Count(s, x) == Cardinality({i \in DOMAIN s : s[i] = x})

\* the input rows the loop has been through
Consumed == SubSeq(input, 1, pos)

\* C6 as stated: every join stage is a left join: every input row the loop
\* has been through is in the output file (at least as often as in the
\* input), and an output row whose raw key is mapped to null has no value in
\* the columns of the reference table.
C6_LeftJoin ==
    (stage \in JoinStages /\ pc \in {"stream", "done"}) =>
        LET rows == DataRows(out.lines)
            kept == [i \in DOMAIN rows |-> InputPart(rows[i])]
        IN  /\ \A i \in DOMAIN Consumed :
                   Count(kept, Consumed[i]) >= Count(Consumed, Consumed[i])
            /\ \A i \in DOMAIN rows :
                   mapping[rows[i].key] = Null => rows[i].val = NoVal

\* a finished stage 8 or 10 whose reference table has a row without country
\* name: the output holds a row whose region matched nothing, with the
\* reference columns of that row
C6_Witness ==
    /\ stage \in {8, 10} /\ pc = "done"
    /\ \E j \in DOMAIN ref : ref[j].name = Null
    /\ LET rows == DataRows(out.lines)
       IN  \E i \in DOMAIN rows :
               /\ rows[i].key \in SeqToSet(unmatched_list)
               /\ rows[i].val # NoVal

C8_HeaderOnce ==
    (stage \in Stages /\ pc \in {"stream", "done"}) =>
        IF writes = 0
        THEN out = stale
        ELSE /\ out.exists
             /\ out.lines[1] = Header
             /\ Count(out.lines, Header) = 1
             /\ Tail(out.lines) = Lines(Transform(stage, mapping, ref, Consumed))

\* two batches were written over a file left by an earlier run
C8_Witness ==
    /\ stage \in Stages /\ pc = "done"
    /\ writes >= 2
    /\ stale.exists /\ stale.lines # <<>>

IsPrefix(s, t) == Len(s) <= Len(t) /\ SubSeq(t, 1, Len(s)) = s

\* the except clause of a streaming stage has reported an exception
Reported == stage \in Stages /\ pc # "start" /\ "error" \in SeqToSet(console)

\* C9: when an exception occurs while batch k is processed the stage reports
\* it and stops: nothing more is read or written, and the header and the
\* batches 1..k-1 already written stay at the head of the output file.
C9_AbortKeepsEarlierBatches ==
    /\ [](Reported =>
            /\ pc = "aborted"
            /\ writes >= 1 =>
                 IsPrefix(<<Header>> \o Lines(Transform(stage, mapping, ref, Consumed)),
                          out.lines))
    /\ [][Reported =>
            /\ out' = out
            /\ pos' = pos /\ chunks_read' = chunks_read /\ writes' = writes
            /\ pc' = pc]_vars

\* the stage stopped on an exception after a batch was written and with
\* input left
C9_Witness ==
    /\ Reported /\ pc = "aborted"
    /\ writes >= 1
    /\ pos < Len(input)

---------------------------------------------------------------------------
(* Missing input files.                                                    *)

RequiredPresent == main_exists /\ (stage \in TwoInputStages => ref_exists)

---------------------------------------------------------------------------
(* Exceptions other than a missing input file.                             *)

\* C11 as stated: an exception other than a missing input file never leaves
\* a script uncaught; whatever is raised while loading, while building the
\* mapping and printing its statistics, or while streaming is caught and
\* printed by the stage.
C11_NoUncaught ==
    pc = "uncaught" => raised = "FileNotFoundError"

\* stage 3 found both files, regions.csv has no data row, and the statistics
\* line after the mapping loop divided by zero outside any try
C11_Witness ==
    /\ stage = 3 /\ main_exists /\ ref_exists /\ input = <<>>
    /\ pc = "uncaught" /\ raised = "ZeroDivisionError"
    /\ console = <<>> /\ out = stale

---------------------------------------------------------------------------
(* 9-process_latitude.py: the hemisphere sign corrector.                   *)

\* a missing number (numpy NaN) in a coordinate column: every comparison
\* with it is false
NaN == 999

\* Countries that should have NEGATIVE LATITUDE
SOUTH_HEMISPHERE == {
    <<"A","r","g","e","n","t","i","n","a">>,
    <<"A","u","s","t","r","a","l","i","a">>,
    <<"B","o","l","i","v","i","a">>,
    <<"B","o","t","s","w","a","n","a">>,
    <<"B","r","a","z","i","l">>,
    <<"B","u","r","u","n","d","i">>,
    <<"C","h","i","l","e">>,
    <<"C","o","m","o","r","o","s">>,
    <<"D","R"," ","C","o","n","g","o">>,
    <<"D","e","m","o","c","r","a","t","i","c"," ","R","e","p","u","b","l","i","c"," ","o","f"," ","t","h","e"," ","C","o","n","g","o">>,
    <<"E","c","u","a","d","o","r">>,
    <<"E","a","s","t"," ","T","i","m","o","r">>,
    <<"E","s","w","a","t","i","n","i">>,
    <<"F","i","j","i">>,
    <<"I","n","d","o","n","e","s","i","a">>,
    <<"K","e","n","y","a">>,
    <<"L","e","s","o","t","h","o">>,
    <<"M","a","d","a","g","a","s","c","a","r">>,
    <<"M","a","l","a","w","i">>,
    <<"M","a","u","r","i","t","i","u","s">>,
    <<"M","o","z","a","m","b","i","q","u","e">>,
    <<"N","a","m","i","b","i","a">>,
    <<"N","a","u","r","u">>,
    <<"N","e","w"," ","Z","e","a","l","a","n","d">>,
    <<"P","a","p","u","a"," ","N","e","w"," ","G","u","i","n","e","a">>,
    <<"P","a","r","a","g","u","a","y">>,
    <<"P","e","r","u">>,
    <<"R","w","a","n","d","a">>,
    <<"S","a","m","o","a">>,
    <<"S","o","l","o","m","o","n"," ","I","s","l","a","n","d","s">>,
    <<"S","o","u","t","h"," ","A","f","r","i","c","a">>,
    <<"T","a","n","z","a","n","i","a">>,
    <<"T","o","n","g","a">>,
    <<"T","u","v","a","l","u">>,
    <<"U","g","a","n","d","a">>,
    <<"U","r","u","g","u","a","y">>,
    <<"V","a","n","u","a","t","u">>,
    <<"Z","a","m","b","i","a">>,
    <<"Z","i","m","b","a","b","w","e">>}

\* Countries that should have NEGATIVE LONGITUDE
WEST_HEMISPHERE == {
    <<"A","n","t","i","g","u","a"," ","a","n","d"," ","B","a","r","b","u","d","a">>,
    <<"A","r","g","e","n","t","i","n","a">>,
    <<"A","r","u","b","a">>,
    <<"B","a","h","a","m","a","s">>,
    <<"T","h","e"," ","B","a","h","a","m","a","s">>,
    <<"B","a","r","b","a","d","o","s">>,
    <<"B","e","l","i","z","e">>,
    <<"B","o","l","i","v","i","a">>,
    <<"B","r","a","z","i","l">>,
    <<"C","a","n","a","d","a">>,
    <<"C","h","i","l","e">>,
    <<"C","o","l","o","m","b","i","a">>,
    <<"C","o","s","t","a"," ","R","i","c","a">>,
    <<"C","u","b","a">>,
    <<"C","u","r","a","ç","a","o">>,
    <<"D","o","m","i","n","i","c","a">>,
    <<"D","o","m","i","n","i","c","a","n"," ","R","e","p","u","b","l","i","c">>,
    <<"E","c","u","a","d","o","r">>,
    <<"E","l"," ","S","a","l","v","a","d","o","r">>,
    <<"G","r","e","n","a","d","a">>,
    <<"G","u","a","t","e","m","a","l","a">>,
    <<"G","u","y","a","n","a">>,
    <<"H","a","i","t","i">>,
    <<"H","o","n","d","u","r","a","s">>,
    <<"I","c","e","l","a","n","d">>,
    <<"I","r","e","l","a","n","d">>,
    <<"J","a","m","a","i","c","a">>,
    <<"M","e","x","i","c","o">>,
    <<"N","i","c","a","r","a","g","u","a">>,
    <<"P","a","n","a","m","a">>,
    <<"P","a","r","a","g","u","a","y">>,
    <<"P","e","r","u">>,
    <<"P","o","r","t","u","g","a","l">>,
    <<"P","u","e","r","t","o"," ","R","i","c","o">>,
    <<"S","a","i","n","t"," ","K","i","t","t","s"," ","a","n","d"," ","N","e","v","i","s">>,
    <<"S","a","i","n","t"," ","L","u","c","i","a">>,
    <<"S","a","i","n","t"," ","V","i","n","c","e","n","t"," ","a","n","d"," ","t","h","e"," ","G","r","e","n","a","d","i","n","e","s">>,
    <<"S","p","a","i","n">>,
    <<"S","u","r","i","n","a","m","e">>,
    <<"T","r","i","n","i","d","a","d"," ","a","n","d"," ","T","o","b","a","g","o">>,
    <<"U","n","i","t","e","d"," ","K","i","n","g","d","o","m">>,
    <<"U","n","i","t","e","d"," ","S","t","a","t","e","s">>,
    <<"U","r","u","g","u","a","y">>,
    <<"V","e","n","e","z","u","e","l","a">>}

\* x > 0 as Python evaluates it on a float
Positive(x) == x # NaN /\ x > 0

\* abs(x)
abs(x) == IF x < 0 THEN -x ELSE x

\* a corrector that negates the coordinate of every listed country, whatever
\* its sign
sign_correct_Negate(row) ==
    LET country == Strip(Str(row.country))
    IN  [row EXCEPT
            !.latitude = IF country \in SOUTH_HEMISPHERE /\ @ # NaN THEN -@ ELSE @,
            !.longitude = IF country \in WEST_HEMISPHERE /\ @ # NaN THEN -@ ELSE @]

\* a corrector that compares the country name as it is stored
sign_correct_NoStrip(row) ==
    LET country == Str(row.country)
    IN  [row EXCEPT
            !.latitude = IF country \in SOUTH_HEMISPHERE /\ Positive(@) THEN -abs(@) ELSE @,
            !.longitude = IF country \in WEST_HEMISPHERE /\ Positive(@) THEN -abs(@) ELSE @]

\* a corrector that forces every positive coordinate negative
sign_correct_Every(row) ==
    [row EXCEPT
        !.latitude = IF Positive(@) THEN -abs(@) ELSE @,
        !.longitude = IF Positive(@) THEN -abs(@) ELSE @]

\* the body of the iterrows loop applied to one row
sign_correct(row) ==
    LET country == Strip(Str(row.country))
    IN  [row EXCEPT
            !.latitude = IF country \in SOUTH_HEMISPHERE /\ Positive(@) THEN -abs(@) ELSE @,
            !.longitude = IF country \in WEST_HEMISPHERE /\ Positive(@) THEN -abs(@) ELSE @]

\* country cells of latitude.csv
Geo_Kenya == <<"K","e","n","y","a">>
Geo_Spain == <<" ","S","p","a","i","n"," ">>
Geo_argentina == <<"a","r","g","e","n","t","i","n","a">>
Geo_Peru == <<" ","P","e","r","u">>
S_Hong_Kong == <<"H","o","n","g"," ","K","o","n","g">>

MaxGeoRows == 2

\* rows of latitude.csv after the selection of the five columns
GeoRows ==
    [country : {Geo_Kenya, Geo_Spain, Geo_argentina, Geo_Peru, Null},
     latitude : {-1, 0, 1, NaN},
     longitude : {-1, 0, 1},
     tertiary_enrollment : {5},
     unemployment_rate : {7}]

InitGeo ==
    /\ stage = 9
    /\ main_exists = TRUE
    /\ ref_exists = FALSE
    /\ input \in SeqsUpTo(GeoRows, MaxGeoRows)
    /\ ref = <<>>
    /\ stale = NoFile
    /\ min_samples = 1
    /\ Fresh

\* df_filtered = df[list(cols_map.keys())].copy(), renamed
Select9 ==
    /\ stage = 9 /\ pc = "loaded"
    /\ df' = input
    /\ pc' = "signs"
    /\ UNCHANGED <<files, mapvars, streamvars, out, console, raised, exit_code,
                   chunk_size, idx, south_fixed, west_fixed, removed, test_rows, scaler, chain>>

\* one iteration of: for idx, row in df_filtered.iterrows()
SignRow ==
    /\ stage = 9 /\ pc = "signs" /\ idx < Len(df)
    /\ LET row == df[idx + 1]
           fixed == sign_correct(row)
       IN  /\ df' = [df EXCEPT ![idx + 1] = fixed]
           /\ south_fixed' = south_fixed + (IF fixed.latitude # row.latitude THEN 1 ELSE 0)
           /\ west_fixed' = west_fixed + (IF fixed.longitude # row.longitude THEN 1 ELSE 0)
    /\ idx' = idx + 1
    /\ UNCHANGED <<files, mapvars, streamvars, out, pc, console, raised, exit_code,
                   chunk_size, removed, test_rows, scaler, chain>>

\* hk_data, appended after the loop
HongKong ==
    [country |-> S_Hong_Kong, latitude |-> 22, longitude |-> 114,
     tertiary_enrollment |-> 84, unemployment_rate |-> 4]

\* the Hong Kong row is appended and the table saved
Save9 ==
    /\ stage = 9 /\ pc = "signs" /\ idx = Len(df)
    /\ df' = Append(df, HongKong)
    /\ out' = to_csv(out, df', "w", TRUE)
    /\ pc' = "done"
    /\ exit_code' = 0
    /\ UNCHANGED <<files, mapvars, streamvars, console, raised, chunk_size, idx,
                   south_fixed, west_fixed, removed, test_rows, scaler, chain>>

NextGeo == Start9 \/ Select9 \/ SignRow \/ Save9

SpecGeo == InitGeo /\ [][NextGeo]_vars

---------------------------------------------------------------------------
(* Properties of the sign corrector (stage 9).                             *)

\* the loop is running or has run
Correcting == stage = 9 /\ pc \in {"signs", "done"}

\* the country of a row as the loop compares it
Trimmed(row) == Strip(Str(row.country))

\* C12: the sign corrector is idempotent: applied to a row it has already
\* corrected, and applied twice to any row of the source, it changes neither
\* latitude nor longitude.
C12_Idempotent ==
    Correcting =>
        /\ \A i \in 1..idx : sign_correct(df[i]) = df[i]
        /\ \A i \in DOMAIN input :
               sign_correct(sign_correct(input[i])) = sign_correct(input[i])

\* the loop has negated the latitude of a row
C12_Witness ==
    /\ Correcting
    /\ \E i \in 1..idx :
           /\ Positive(input[i].latitude)
           /\ df[i].latitude = -input[i].latitude

\* the listed names, lowercased
SouthLower == {Lower(n) : n \in SOUTH_HEMISPHERE}
WestLower == {Lower(n) : n \in WEST_HEMISPHERE}

Negative(x) == x # NaN /\ x < 0

C14_Frame ==
    (stage = 9 /\ pc = "signs") =>
        /\ Len(df) = Len(input)
        /\ \A i \in DOMAIN df :
               /\ df[i].country = input[i].country
               /\ df[i].tertiary_enrollment = input[i].tertiary_enrollment
               /\ df[i].unemployment_rate = input[i].unemployment_rate
               /\ Trimmed(input[i]) \notin SOUTH_HEMISPHERE =>
                      df[i].latitude = input[i].latitude
               /\ Trimmed(input[i]) \notin WEST_HEMISPHERE =>
                      df[i].longitude = input[i].longitude
               /\ df[i].latitude # input[i].latitude =>
                      df[i].latitude = -input[i].latitude
               /\ df[i].longitude # input[i].longitude =>
                      df[i].longitude = -input[i].longitude
               /\ i > idx => df[i] = input[i]

\* the loop has visited a row of a country in neither set and left its
\* positive coordinates, and a row of a Southern-Hemisphere country outside
\* the Western set, of which it changed the latitude only
C14_Witness ==
    /\ stage = 9 /\ pc = "signs" /\ idx = Len(df)
    /\ \E i \in 1..idx :
           /\ Trimmed(input[i]) \notin SOUTH_HEMISPHERE \cup WEST_HEMISPHERE
           /\ Positive(df[i].latitude) /\ Positive(df[i].longitude)
    /\ \E i \in 1..idx :
           /\ Trimmed(input[i]) \in SOUTH_HEMISPHERE \ WEST_HEMISPHERE
           /\ df[i].latitude # input[i].latitude
           /\ Positive(df[i].longitude)

---------------------------------------------------------------------------
(* 13-preprocess.py: target extraction, rare-class filter, split, scaling. *)

Digits == {"0","1","2","3","4","5","6","7","8","9"}
Quote == "'"

\* s.split(c): the pieces of s between the occurrences of the character c
RECURSIVE SplitOn(_, _)
SplitOn(s, c) ==
    IF \A i \in DOMAIN s : s[i] # c THEN <<s>>
    ELSE LET k == CHOOSE i \in DOMAIN s : s[i] = c /\ \A j \in 1..(i - 1) : s[j] # c
         IN  <<SubSeq(s, 1, k - 1)>> \o SplitOn(SubSeq(s, k + 1, Len(s)), c)

\* s is a single-quoted string literal without escapes
IsQuoted(s) ==
    /\ Len(s) >= 2 /\ s[1] = Quote /\ s[Len(s)] = Quote
    /\ \A i \in 2..(Len(s) - 1) : s[i] \notin {Quote, "\\"}

\* ast.literal_eval on the literals that occur here: a list of single-quoted
\* strings, a single-quoted string, an unsigned integer; blanks around the
\* literal and around the items are skipped.  Any other text (a bare word,
\* several words) makes literal_eval raise ValueError or SyntaxError.
literal_eval(s) ==
    LET t == Strip(s)
    IN  IF Len(t) >= 2 /\ t[1] = "[" /\ t[Len(t)] = "]"
        THEN LET inner == Strip(SubSeq(t, 2, Len(t) - 1))
                 items == [i \in DOMAIN SplitOn(inner, ",") |-> Strip(SplitOn(inner, ",")[i])]
             IN  IF inner = <<>> THEN [kind |-> "list", items |-> <<>>]
                 ELSE IF \A i \in DOMAIN items : IsQuoted(items[i])
                 THEN [kind |-> "list",
                       items |-> [i \in DOMAIN items |->
                                     SubSeq(items[i], 2, Len(items[i]) - 1)]]
                 ELSE [kind |-> "error", items |-> <<>>]
        ELSE IF IsQuoted(t) THEN [kind |-> "str", items |-> <<>>]
        ELSE IF t # <<>> /\ \A i \in DOMAIN t : t[i] \in Digits
        THEN [kind |-> "int", items |-> <<>>]
        ELSE [kind |-> "error", items |-> <<>>]

\* an extractor whose except branch does not strip
extract_primary_genre_NoStrip(genre_str) ==
    LET genre_list == literal_eval(Str(genre_str))
    IN  IF genre_list.kind = "list" /\ Len(genre_list.items) > 0
        THEN genre_list.items[1]
        ELSE Str(genre_str)

extract_primary_genre(genre_str) ==
    LET genre_list == literal_eval(Str(genre_str))
    IN  IF genre_list.kind = "error" THEN Strip(Str(genre_str))
        ELSE IF genre_list.kind = "list" /\ Len(genre_list.items) > 0
        THEN genre_list.items[1]
        ELSE Str(genre_str)

\* df[target_col].value_counts()[label]
Freq(table, label) == Cardinality({i \in DOMAIN table : table[i].primary_genre = label})

Labels(table) == {table[i].primary_genre : i \in DOMAIN table}

\* a filter that keeps the labels with more than min_samples rows
filter_rare_genres_Above(table, min) ==
    [df_filtered |-> SelectRows(table,
                        {i \in DOMAIN table : Freq(table, table[i].primary_genre) > min}),
     removed_genres |-> {l \in Labels(table) : Freq(table, l) < min}]

filter_rare_genres(table, min) ==
    [df_filtered |-> SelectRows(table,
                        {i \in DOMAIN table : Freq(table, table[i].primary_genre) >= min}),
     removed_genres |-> {l \in Labels(table) : Freq(table, l) < min}]

\* ceil(TEST_SIZE * n) with TEST_SIZE = 0.2
n_test(n) == (n + 4) \div 5

RECURSIVE SumX(_)
SumX(rows) == IF rows = <<>> THEN 0 ELSE rows[1].x + SumX(Tail(rows))

RECURSIVE SumSq(_)
SumSq(rows) == IF rows = <<>> THEN 0 ELSE rows[1].x * rows[1].x + SumSq(Tail(rows))

\* StandardScaler.fit: mean_ and var_ of a column are sum/n and
\* sumsq/n - (sum/n)^2, kept here as the three integers that determine them
fit(rows) == [fitted |-> TRUE, n |-> Len(rows), sum |-> SumX(rows), sumsq |-> SumSq(rows)]

\* StandardScaler.transform of one value: (x - mean) / scale, kept as the
\* integers n*(x - mean) and n*n*var that determine it
transform(s, x) == [a |-> s.n * x - s.sum, b |-> s.n * s.sumsq - s.sum * s.sum, n |-> s.n]

\* the statistics fitted on all rows, test partition included
X_train_All(table, test) == table

\* X_train: the rows train_test_split did not put into the test partition
X_train(table, test) == SelectRows(table, DOMAIN table \ test)

\* values of the track_genre column of train_dataset.csv
F_pop_rock == <<"[","'","p","o","p","'",","," ","'","r","o","c","k","'","]">>
F_rock == <<"r","o","c","k">>
F_rock_blanks == <<" ","r","o","c","k"," ">>
F_empty_list_blank == <<"[","]"," ">>
S_pop == <<"p","o","p">>

MaxPrepRows == 3
MaxThreshold == 2

\* values of a numeric feature column
XValues == {1, 2}

PrepRows ==
    [track_genre : {F_pop_rock, F_rock, F_rock_blanks, F_empty_list_blank},
     x : XValues]

InitPrep ==
    /\ stage = 13
    /\ main_exists = TRUE
    /\ ref_exists = FALSE
    /\ input \in SeqsUpTo(PrepRows, MaxPrepRows)
    /\ ref = <<>>
    /\ stale = NoFile
    /\ min_samples \in 1..MaxThreshold
    /\ Fresh

prepframe == <<files, mapvars, streamvars, chunk_size, idx, south_fixed, west_fixed,
               chain>>

\* STEP 3: df['primary_genre'] = df[TARGET_COL].apply(extract_primary_genre)
Extract13 ==
    /\ stage = 13 /\ pc = "loaded"
    /\ df' = [i \in DOMAIN input |->
                 [primary_genre |-> extract_primary_genre(input[i].track_genre),
                  x |-> input[i].x, z |-> NoVal]]
    /\ pc' = "extracted"
    /\ UNCHANGED <<prepframe, out, console, raised, exit_code, removed, test_rows, scaler>>

\* df, removed = filter_rare_genres(df, 'primary_genre', min_samples=500)
FilterRare13 ==
    /\ stage = 13 /\ pc = "extracted"
    /\ df' = filter_rare_genres(df, min_samples).df_filtered
    /\ removed' = filter_rare_genres(df, min_samples).removed_genres
    /\ pc' = "filtered"
    /\ UNCHANGED <<prepframe, out, console, raised, exit_code, test_rows, scaler>>

\* STEP 5: train_test_split(X, y, test_size=TEST_SIZE, random_state=..., stratify=y).
\* Which rows the seeded stratified shuffle picks is not computed: any
\* n_test rows may be the test partition.  With no row left for the training
\* partition train_test_split raises ValueError, which main() does not catch.
Split13 ==
    /\ stage = 13 /\ pc = "filtered"
    /\ IF Len(df) - n_test(Len(df)) = 0
       THEN /\ Uncaught("ValueError")
            /\ UNCHANGED test_rows
       ELSE /\ test_rows' \in {s \in SUBSET DOMAIN df : Cardinality(s) = n_test(Len(df))}
            /\ Proceed("split")
    /\ UNCHANGED <<files, mapvars, streamvars, idx, south_fixed, west_fixed, out, df,
                   removed, scaler, chain>>

\* STEP 6: scaler.fit_transform(X_train[...]); scaler.transform(X_test[...])
Scale13 ==
    /\ stage = 13 /\ pc = "split"
    /\ scaler' = fit(X_train(df, test_rows))
    /\ df' = [i \in DOMAIN df |-> [df[i] EXCEPT !.z = transform(scaler', df[i].x)]]
    /\ pc' = "scaled"
    /\ UNCHANGED <<prepframe, out, console, raised, exit_code, removed, test_rows>>

\* STEP 7, STEP 8: the partitions, the artifacts and the report are saved
Save13 ==
    /\ stage = 13 /\ pc = "scaled"
    /\ out' = to_csv(out, df, "w", TRUE)
    /\ console' = Append(console, "complete")
    /\ pc' = "done"
    /\ exit_code' = 0
    /\ UNCHANGED <<prepframe, df, raised, removed, test_rows, scaler>>

NextPrep == Start13 \/ Extract13 \/ FilterRare13 \/ Split13 \/ Scale13 \/ Save13

SpecPrep == InitPrep /\ [][NextPrep]_vars

---------------------------------------------------------------------------
(* Properties of the preprocessing (stage 13).                             *)

\* the table as it is before the rare-class filter: one row per input row,
\* labelled with the extracted primary genre
PreFilter ==
    [i \in DOMAIN input |->
        [primary_genre |-> extract_primary_genre(input[i].track_genre),
         x |-> input[i].x, z |-> NoVal]]

\* C15: after the rare-class filter with threshold min_samples, every label
\* left has at least min_samples rows in the table before the filter, every
\* row whose label has at least min_samples rows is kept (in order), so the
\* number of rows left is the sum of the frequencies of the labels left; the
\* removed labels reported are exactly those with fewer than min_samples rows.
C15_RareFilter ==
    (stage = 13 /\ pc = "filtered") =>
        /\ \A i \in DOMAIN df : Freq(PreFilter, df[i].primary_genre) >= min_samples
        /\ df = SelectRows(PreFilter,
                   {i \in DOMAIN PreFilter :
                       Freq(PreFilter, PreFilter[i].primary_genre) >= min_samples})
        /\ Len(df) = Cardinality({i \in DOMAIN PreFilter :
                                     PreFilter[i].primary_genre \in Labels(df)})
        /\ removed = {l \in Labels(PreFilter) : Freq(PreFilter, l) < min_samples}

\* the filter kept a label that has exactly min_samples = 2 rows and removed
\* another
C15_Witness ==
    /\ stage = 13 /\ pc = "filtered" /\ min_samples = 2
    /\ removed # {}
    /\ \E i \in DOMAIN df : Freq(PreFilter, df[i].primary_genre) = min_samples

\* C16 as stated: a field that parses as a non-empty list literal yields the
\* first element of the list; every other field yields the whole field with
\* surrounding whitespace trimmed.
C16_Original ==
    (stage = 13 /\ pc = "extracted") =>
        \A i \in DOMAIN df :
            LET field == input[i].track_genre
                parsed == literal_eval(field)
            IN  IF parsed.kind = "list" /\ parsed.items # <<>>
                THEN df[i].primary_genre = parsed.items[1]
                ELSE df[i].primary_genre = Strip(field)

\* C16, amended: a field that parses as a non-empty list literal yields the
\* first element of the list ("['pop', 'rock']" yields "pop"); a field that
\* is no literal at all (plain text such as "rock") yields the whole field
\* with surrounding whitespace trimmed; a field that parses as another
\* literal (an empty list, a quoted string, a number) yields the whole field
\* as it is, surrounding whitespace included.
C16_PrimaryGenre ==
    (stage = 13 /\ pc = "extracted") =>
        \A i \in DOMAIN df :
            LET field == input[i].track_genre
                parsed == literal_eval(field)
            IN  /\ CASE parsed.kind = "list" /\ parsed.items # <<>> ->
                            df[i].primary_genre = parsed.items[1]
                     [] parsed.kind = "error" -> df[i].primary_genre = Strip(field)
                     [] OTHER -> df[i].primary_genre = field
                /\ field = F_pop_rock => df[i].primary_genre = S_pop
                /\ field = F_rock => df[i].primary_genre = F_rock
                /\ field = F_rock_blanks => df[i].primary_genre = F_rock
                /\ field = F_empty_list_blank => df[i].primary_genre = F_empty_list_blank

\* "['pop', 'rock']" was extracted to "pop" and " rock " to "rock"
C16_Witness ==
    /\ stage = 13 /\ pc = "extracted"
    /\ \E i \in DOMAIN df : input[i].track_genre = F_pop_rock /\ df[i].primary_genre = S_pop
    /\ \E i \in DOMAIN df :
           input[i].track_genre = F_rock_blanks /\ df[i].primary_genre = F_rock

\* the rows of table with the feature value of row j replaced by v
WithX(table, j, v) == [table EXCEPT ![j].x = v]

---------------------------------------------------------------------------
(* Properties of the training set (stage 11).                              *)

\* the rows of train_dataset.csv
TrainingSet == {DataRows(out.lines)[k] : k \in DOMAIN DataRows(out.lines)}

\* C18: every row of the training set written by stage 11 has a genre, a
\* temperature and the socioeconomic fields (here: unemployment rate and
\* population), and a row of the input that misses one of them is not in
\* the training set.
C18_RequiredFields ==
    (stage = 11 /\ pc = "done" /\ out.exists) =>
        /\ \A r \in TrainingSet :
               r.genre # NoVal /\ r.temp # NoVal /\ r.unemp # NoVal /\ r.pop # NoVal
        /\ \A i \in DOMAIN input :
               (input[i].genre = NoVal \/ input[i].temp = NoVal
                    \/ input[i].unemp = NoVal \/ input[i].pop = NoVal)
                   => input[i] \notin TrainingSet

\* stage 11 has finished and the training set holds a row that has a genre,
\* a temperature and an unemployment rate but no population
C18_Witness ==
    /\ stage = 11 /\ pc = "done" /\ out.exists
    /\ \E r \in TrainingSet :
           r.genre # NoVal /\ r.temp # NoVal /\ r.unemp # NoVal /\ r.pop = NoVal

---------------------------------------------------------------------------
(* Stage 2, 2-process_genres.py: the artist aggregation.  A row of         *)
(* genres.csv is [artists, track_genre]; the numeric columns, which are    *)
(* averaged per artist, are left out.  The grouped table has one row       *)
(* [artist, track_genre] per group, track_genre being the list the         *)
(* aggregation builds.  groupby sorts the groups by artist; here they are  *)
(* in order of first appearance.  The order in which list(set(x)) lists    *)
(* the genres depends on the hash seed of the interpreter: any order.      *)

A_AB == <<"A", ";", "B">>
A_A_blank_B == <<"A", ";", " ", "B">>
A_B == <<"B">>
A_A_empty == <<"A", ";">>

Genres == {S_pop, F_rock}

MaxGenreRows == 3

GenreRows == [artists : {A_AB, A_A_blank_B, A_B, A_A_empty, Null}, track_genre : Genres]

InitGenres ==
    /\ stage = 2
    /\ main_exists = TRUE
    /\ ref_exists = FALSE
    /\ input \in SeqsUpTo(GenreRows, MaxGenreRows)
    /\ ref = <<>>
    /\ stale = NoFile
    /\ min_samples = 1
    /\ Fresh

\* df.explode('artist') without the strip that follows it
explode_NoStrip(table) ==
    Flatten([i \in DOMAIN table |->
        [k \in DOMAIN SplitOn(table[i].artists, ";") |->
            [artist |-> SplitOn(table[i].artists, ";")[k],
             track_genre |-> table[i].track_genre]]])

\* df['artist'] = df['artists'].str.split(';'); df.explode('artist');
\* df_exploded['artist'] = df_exploded['artist'].str.strip()
explode(table) ==
    Flatten([i \in DOMAIN table |->
        [k \in DOMAIN SplitOn(table[i].artists, ";") |->
            [artist |-> Strip(SplitOn(table[i].artists, ";")[k]),
             track_genre |-> table[i].track_genre]]])

\* the column col of a table
Column(table, col) == [i \in DOMAIN table |-> table[i][col]]

\* df_exploded.groupby('artist').agg({'track_genre': lambda x: list(set(x))})
\* .reset_index()
groupby_artist(table) ==
    LET artists == Unique(Column(table, "artist"))
    IN  [g \in DOMAIN artists |->
            [artist |-> artists[g],
             track_genre |-> Unique(Column(
                 SelectRows(table, {i \in DOMAIN table : table[i].artist = artists[g]}),
                 "track_genre"))]]

\* the orders in which the elements of s can be listed
Orders(s) == {[i \in DOMAIN s |-> s[f[i]]] : f \in Permutations(DOMAIN s)}

\* the tables the aggregation can produce: the genre list of each group in
\* any order
RECURSIVE Listings(_)
Listings(table) ==
    IF table = <<>> THEN {<<>>}
    ELSE {Append(t, [Last(table) EXCEPT !.track_genre = o]) :
             t \in Listings(Front(table)), o \in Orders(Last(table).track_genre)}

genreframe == <<files, mapvars, streamvars, console, raised, chunk_size, idx, south_fixed,
                west_fixed, removed, test_rows, scaler, chain>>

\* df = df.dropna(subset=['artists'])
DropNull2 ==
    /\ stage = 2 /\ pc = "loaded"
    /\ df' = SelectRows(input, {i \in DOMAIN input : input[i].artists # Null})
    /\ pc' = "nonnull"
    /\ UNCHANGED <<genreframe, out, exit_code>>

Explode2 ==
    /\ stage = 2 /\ pc = "nonnull"
    /\ df' = explode(df)
    /\ pc' = "exploded"
    /\ UNCHANGED <<genreframe, out, exit_code>>

Group2 ==
    /\ stage = 2 /\ pc = "exploded"
    /\ df' \in Listings(groupby_artist(df))
    /\ pc' = "grouped"
    /\ UNCHANGED <<genreframe, out, exit_code>>

\* df_grouped.to_csv(output_file, index=False)
Save2 ==
    /\ stage = 2 /\ pc = "grouped"
    /\ out' = to_csv(out, df, "w", TRUE)
    /\ pc' = "done"
    /\ exit_code' = 0
    /\ UNCHANGED <<genreframe, df>>

NextGenres == Start2 \/ DropNull2 \/ Explode2 \/ Group2 \/ Save2

SpecGenres == InitGenres /\ [][NextGenres]_vars

---------------------------------------------------------------------------
(* Properties of the artist aggregation (stage 2).                         *)

\* the artists the row i of genres.csv lists: the parts of its artists field
\* between ';', trimmed; none when the field is missing
Listed(i) ==
    IF input[i].artists = Null THEN {}
    ELSE {Strip(SplitOn(input[i].artists, ";")[k]) :
             k \in DOMAIN SplitOn(input[i].artists, ";")}

\* C19: the table stage 2 writes has exactly one row per distinct artist
\* listed by some row of genres.csv, and the genre list of that row holds
\* each genre of the rows that list the artist exactly once and no other.
C19_OneRowPerArtist ==
    (stage = 2 /\ pc = "done") =>
        LET rows == DataRows(out.lines)
        IN  /\ {rows[g].artist : g \in DOMAIN rows} = UNION {Listed(i) : i \in DOMAIN input}
            /\ \A g, h \in DOMAIN rows : rows[g].artist = rows[h].artist => g = h
            /\ \A g \in DOMAIN rows : \A genre \in Genres :
                   Count(rows[g].track_genre, genre) =
                       IF \E i \in DOMAIN input :
                              rows[g].artist \in Listed(i) /\ input[i].track_genre = genre
                       THEN 1 ELSE 0

\* an artist written "B" in one row and " B" after a ';' in another, listed by
\* three rows with two genres between them, has one row with both genres
C19_Witness ==
    /\ stage = 2 /\ pc = "done"
    /\ \E i, j \in DOMAIN input : input[i].artists = A_A_blank_B /\ input[j].artists = A_B
    /\ \E g \in DOMAIN DataRows(out.lines) :
           /\ DataRows(out.lines)[g].artist = A_B
           /\ Len(DataRows(out.lines)[g].track_genre) = 2
           /\ Cardinality({i \in DOMAIN input : A_B \in Listed(i)}) = 3

---------------------------------------------------------------------------
(* Stage 5, 5-process_climate.py: the climate aggregation.  A reading of   *)
(* GlobalLandTemperaturesByCountry.csv is [Country, dt, AverageTemperature],*)
(* dt being [year, month] or NaT for an empty date cell.  The mean of a    *)
(* group is kept exact as [sum, n].  groupby sorts the groups; here they   *)
(* are in order of first appearance.                                       *)

NaT == [year |-> 0, month |-> 0]

ClimateCountries == {Ref_Peru, S_United_Kingdom}

MaxClimateRows == 2

Readings ==
    [Country : ClimateCountries \cup {Null},
     dt : {[year |-> 1969, month |-> 1], [year |-> 1970, month |-> 1],
           [year |-> 1970, month |-> 12], NaT},
     AverageTemperature : {NoVal, 2}]

InitClimate ==
    /\ stage = 5
    /\ main_exists = TRUE
    /\ ref_exists = FALSE
    /\ input \in SeqsUpTo(Readings, MaxClimateRows)
    /\ ref = <<>>
    /\ stale = NoFile
    /\ min_samples = 1
    /\ Fresh

\* a filter that keeps the years after 1970 only
from_1970_After(table) ==
    SelectRows(table, {i \in DOMAIN table : table[i].dt # NaT /\ table[i].dt.year > 1970})

\* df[df['dt'].dt.year >= 1970]: the year of NaT is NaN, and NaN >= 1970 is
\* False
from_1970(table) ==
    SelectRows(table, {i \in DOMAIN table : table[i].dt # NaT /\ table[i].dt.year >= 1970})

\* df_filtered.dropna(subset=['AverageTemperature'])
dropna_temperature(table) ==
    SelectRows(table, {i \in DOMAIN table : table[i].AverageTemperature # NoVal})

\* df_filtered['month'] = df_filtered['dt'].dt.month
with_month(table) ==
    [i \in DOMAIN table |->
        [Country |-> table[i].Country, month |-> table[i].dt.month,
         AverageTemperature |-> table[i].AverageTemperature]]

RECURSIVE SumTemps(_)
SumTemps(table) ==
    IF table = <<>> THEN 0 ELSE SumTemps(Front(table)) + Last(table).AverageTemperature

\* df_filtered.groupby(['Country', 'month'])['AverageTemperature'].mean()
\* .reset_index(), columns renamed to country, month, avg_temp; groupby
\* leaves out the rows whose Country is missing
df_monthly_avg(table) ==
    LET named == SelectRows(table, {i \in DOMAIN table : table[i].Country # Null})
        pairs == Unique([i \in DOMAIN named |-> <<named[i].Country, named[i].month>>])
        group(p) == SelectRows(named, {i \in DOMAIN named :
                                   <<named[i].Country, named[i].month>> = p})
    IN  [g \in DOMAIN pairs |->
            [country |-> pairs[g][1], month |-> pairs[g][2],
             avg_temp |-> [sum |-> SumTemps(group(pairs[g])), n |-> Len(group(pairs[g]))]]]

climateframe == <<files, mapvars, streamvars, console, raised, chunk_size, idx, south_fixed,
                  west_fixed, removed, test_rows, scaler, chain>>

Filter5 ==
    /\ stage = 5 /\ pc = "loaded"
    /\ df' = from_1970(input)
    /\ pc' = "filtered"
    /\ UNCHANGED <<climateframe, out, exit_code>>

DropNa5 ==
    /\ stage = 5 /\ pc = "filtered"
    /\ df' = dropna_temperature(df)
    /\ pc' = "nonnull"
    /\ UNCHANGED <<climateframe, out, exit_code>>

Month5 ==
    /\ stage = 5 /\ pc = "nonnull"
    /\ df' = with_month(df)
    /\ pc' = "months"
    /\ UNCHANGED <<climateframe, out, exit_code>>

Group5 ==
    /\ stage = 5 /\ pc = "months"
    /\ df' = df_monthly_avg(df)
    /\ pc' = "grouped"
    /\ UNCHANGED <<climateframe, out, exit_code>>

\* the count of countries with 12 months is printed, then the table is saved
\* as it is
Save5 ==
    /\ stage = 5 /\ pc = "grouped"
    /\ out' = to_csv(out, df, "w", TRUE)
    /\ pc' = "done"
    /\ exit_code' = 0
    /\ UNCHANGED <<climateframe, df>>

NextClimate == Start5 \/ Filter5 \/ DropNa5 \/ Month5 \/ Group5 \/ Save5

SpecClimate == InitClimate /\ [][NextClimate]_vars

---------------------------------------------------------------------------
(* Properties of the climate aggregation (stage 5).                        *)

\* the raw data has a reading of country c in month m with a year of at
\* least 1970 and a temperature
HasReading(c, m) ==
    \E i \in DOMAIN input :
        /\ input[i].Country = c
        /\ input[i].dt # NaT /\ input[i].dt.year >= 1970 /\ input[i].dt.month = m
        /\ input[i].AverageTemperature # NoVal

\* C20: the table stage 5 writes has at most one row per (country, month),
\* month in 1..12, so at most 12 rows per country; a pair has a row exactly
\* when the raw data has a reading of that country in that month from 1970
\* on with a temperature; nothing is added or removed to reach 12 months.
C20_MonthlyRows ==
    (stage = 5 /\ pc = "done") =>
        LET rows == DataRows(out.lines)
        IN  /\ \A g, h \in DOMAIN rows :
                   (rows[g].country = rows[h].country /\ rows[g].month = rows[h].month)
                       => g = h
            /\ \A g \in DOMAIN rows :
                   rows[g].month \in 1..12 /\ rows[g].country \in ClimateCountries
            /\ \A c \in ClimateCountries :
                   /\ Cardinality({g \in DOMAIN rows : rows[g].country = c}) <= 12
                   /\ \A m \in 1..12 :
                          (\E g \in DOMAIN rows : rows[g].country = c /\ rows[g].month = m)
                              <=> HasReading(c, m)
            /\ Len(rows) = Cardinality({p \in ClimateCountries \X (1..12) :
                                           HasReading(p[1], p[2])})

\* a country with a reading of 1970 and one of 1969 in another month is
\* written with the one month only
C20_Witness ==
    /\ stage = 5 /\ pc = "done"
    /\ \E i, j \in DOMAIN input :
           /\ input[i].Country = input[j].Country /\ input[i].Country # Null
           /\ input[i].dt = [year |-> 1970, month |-> 12]
           /\ input[j].dt = [year |-> 1969, month |-> 1]
           /\ input[i].AverageTemperature # NoVal /\ input[j].AverageTemperature # NoVal
    /\ Len(DataRows(out.lines)) = 1
    /\ DataRows(out.lines)[1].month = 12

---------------------------------------------------------------------------
(* The chain of stages: the scripts run one after the other, in the order  *)
(* 1..13, on one data directory.  Of a stage only the files it opens and   *)
(* the files it writes are followed here; disk[f] is the stage that wrote  *)
(* the file f, 0 for a file that was in the directory before the chain     *)
(* started and Absent for a file that is not there.  A read is recorded as *)
(* [stage, file, writer].                                                  *)

Absent == -1

\* the files the scripts open, in the order in which they open them
Inputs(st) ==
    CASE st = 1  -> <<"charts.csv">>
      [] st = 2  -> <<"genres.csv">>
      [] st = 3  -> <<"artist_genres.csv", "regions.csv">>
      [] st = 4  -> <<"artist_genres.csv", "final_dataset.csv">>
      [] st = 5  -> <<"GlobalLandTemperaturesByCountry.csv">>
      [] st = 6  -> <<"country_monthly_temps.csv", "final_dataset.csv">>
      [] st = 7  -> <<"countries.csv">>
      [] st = 8  -> <<"country_economy.csv", "final_dataset_v2.csv">>
      [] st = 9  -> <<"latitude.csv">>
      [] st = 10 -> <<"country_latitude.csv", "final_dataset_v3.csv">>
      [] st = 11 -> <<"final_dataset_v4.csv">>
      [] st = 12 -> <<"train_dataset.csv">>
      [] st = 13 -> <<"train_dataset.csv">>

\* the files the scripts write
Outputs(st) ==
    CASE st = 1  -> {"charts_cleaned.csv"}
      [] st = 2  -> {"artist_genres.csv"}
      [] st = 3  -> {"final_dataset.csv"}
      [] st = 4  -> {}
      [] st = 5  -> {"country_monthly_temps.csv"}
      [] st = 6  -> {"final_dataset_v2.csv"}
      [] st = 7  -> {"country_economy.csv"}
      [] st = 8  -> {"final_dataset_v3.csv"}
      [] st = 9  -> {"country_latitude.csv"}
      [] st = 10 -> {"final_dataset_v4.csv"}
      [] st = 11 -> {"train_dataset.csv"}
      [] st = 12 -> {"eda_report_professional.txt"}
      [] st = 13 -> {"X_train.parquet", "X_test.parquet", "y_train.parquet",
                     "y_test.parquet", "preprocessing_artifacts.pkl",
                     "preprocess_report.txt"}

\* the data sets the pipeline starts from
RawFiles ==
    {"charts.csv", "genres.csv", "GlobalLandTemperaturesByCountry.csv",
     "countries.csv", "latitude.csv"}

\* the track file of stage 3, which no script writes
regions_file == "regions.csv"

AllFiles ==
    UNION {{Inputs(st)[k] : k \in DOMAIN Inputs(st)} \cup Outputs(st) : st \in AllStages}

OnDisk(f) == disk[f] # Absent

\* the inputs a stage gets to open: stage 3 tests both files with
\* os.path.exists before it opens any, the other stages stop at the first
\* file that is not there
Opened(st) ==
    IF st = 3 /\ \E k \in DOMAIN Inputs(st) : ~OnDisk(Inputs(st)[k]) THEN {}
    ELSE {Inputs(st)[k] : k \in {j \in DOMAIN Inputs(st) :
                                   \A i \in 1..(j - 1) : OnDisk(Inputs(st)[i])}}
         \cap {f \in AllFiles : OnDisk(f)}

Ready(st) == \A k \in DOMAIN Inputs(st) : OnDisk(Inputs(st)[k])

\* a fresh data directory: some of the raw data sets and possibly a
\* regions.csv put there by hand, nothing a script writes
InitChain ==
    /\ stage = 1
    /\ pc = "chain"
    /\ main_exists = FALSE
    /\ ref_exists = FALSE
    /\ input = <<>>
    /\ ref = <<>>
    /\ stale = NoFile
    /\ min_samples = 1
    /\ disk \in {[f \in AllFiles |-> IF f \in there THEN 0 ELSE Absent] :
                   there \in SUBSET (RawFiles \cup {regions_file})}
    /\ reads = {}
    /\ Blank

chainframe == <<main_exists, ref_exists, input, ref, stale, min_samples, mapvars,
                streamvars, out, console, raised, exit_code, chunk_size, df, idx,
                south_fixed, west_fixed, removed, test_rows, scaler>>

\* the next script in the chain, if any
Advance ==
    /\ stage' = IF stage < 13 THEN stage + 1 ELSE stage
    /\ pc' = IF stage < 13 THEN "chain" ELSE "done"

\* the stage finds its inputs and writes its outputs
StageCompletes ==
    /\ pc = "chain" /\ Ready(stage)
    /\ reads' = reads \cup {[stage |-> stage, file |-> f, writer |-> disk[f]] :
                               f \in Opened(stage)}
    /\ disk' = [f \in AllFiles |-> IF f \in Outputs(stage) THEN stage ELSE disk[f]]
    /\ Advance
    /\ UNCHANGED chainframe

\* the stage ends without writing: an input is not there, or the stage fails
\* on what it has read
StageStops ==
    /\ pc = "chain"
    /\ reads' = reads \cup {[stage |-> stage, file |-> f, writer |-> disk[f]] :
                               f \in Opened(stage)}
    /\ Advance
    /\ UNCHANGED <<chainframe, disk>>

NextChain == StageCompletes \/ StageStops

SpecChain == InitChain /\ [][NextChain]_vars

---------------------------------------------------------------------------
(* Properties of the chain of stages.                                      *)

\* C21: every file a stage reads that is not a raw data set has been written
\* by an earlier stage of the chain, and the track file stage 3 reads is the
\* file stage 1 has written.
C21_Chain ==
    \A r \in reads :
        /\ r.file \notin RawFiles => r.writer \in 1..(r.stage - 1)
        /\ (r.stage = 3 /\ r.file = Inputs(3)[2]) => r.writer = 1

\* stage 1 has written its output, stage 3 has read a track file that no
\* stage wrote, and at the end of the chain no stage has read the output of
\* stage 1
C21_Witness ==
    /\ pc = "done"
    /\ disk["charts_cleaned.csv"] = 1
    /\ [stage |-> 3, file |-> regions_file, writer |-> 0] \in reads
    /\ \A r \in reads : r.file \notin Outputs(1)
    /\ \A r \in reads : r.file \notin RawFiles \cup {regions_file} =>
                            r.writer \in 1..(r.stage - 1)

---------------------------------------------------------------------------
(* The two country tables: stage 7, 7-process_countries.py, next to stage  *)
(* 9.  A row of countries.csv is [Country, Continent, Population,          *)
(* GDP_per_capita]; country_economy.csv has the same rows under lowercase  *)
(* column names.                                                           *)

S_Europe == <<"E","u","r","o","p","e">>

MaxCountryRows == 2

CountryRows ==
    [Country : {Ref_Peru, S_United_Kingdom, Null},
     Continent : {S_Europe},
     Population : {NoVal, 1},
     GDP_per_capita : {3}]

\* rows of latitude.csv, among them one of Hong Kong
TableGeoRows ==
    {r \in GeoRows : r.country \in {Geo_Kenya, Null} /\ r.latitude = 1 /\ r.longitude = 1}
        \cup {HongKong}

InitTables ==
    /\ stage \in {7, 9}
    /\ main_exists = TRUE
    /\ ref_exists = FALSE
    /\ input \in IF stage = 7 THEN SeqsUpTo(CountryRows, MaxCountryRows)
                 ELSE SeqsUpTo(TableGeoRows, MaxGeoRows)
    /\ ref = <<>>
    /\ stale = NoFile
    /\ min_samples = 1
    /\ Fresh

\* df_filtered = df[columns_to_keep].copy(); nulls and duplicates are counted
\* and printed; df_filtered.columns = [c.lower() for c in df_filtered.columns]
Select7 ==
    /\ stage = 7 /\ pc = "loaded"
    /\ df' = [i \in DOMAIN input |->
                 [country |-> input[i].Country, continent |-> input[i].Continent,
                  population |-> input[i].Population,
                  gdp_per_capita |-> input[i].GDP_per_capita]]
    /\ pc' = "selected"
    /\ UNCHANGED <<files, mapvars, streamvars, out, console, raised, exit_code,
                   chunk_size, idx, south_fixed, west_fixed, removed, test_rows, scaler,
                   chain>>

\* df_filtered.to_csv(output_file, index=False)
Save7 ==
    /\ stage = 7 /\ pc = "selected"
    /\ out' = to_csv(out, df, "w", TRUE)
    /\ pc' = "done"
    /\ exit_code' = 0
    /\ UNCHANGED <<files, mapvars, streamvars, df, console, raised, chunk_size, idx,
                   south_fixed, west_fixed, removed, test_rows, scaler, chain>>

NextTables == Start7 \/ Select7 \/ Save7 \/ NextGeo

SpecTables == InitTables /\ [][NextTables]_vars

---------------------------------------------------------------------------
(* Properties of the country tables (stages 7 and 9).                      *)

\* C22: the table stage 7 writes and the table stage 9 writes have one row
\* per country name, whatever the input file holds.
C22_OneRowPerCountry ==
    (stage \in {7, 9} /\ pc = "done") =>
        \A g, h \in DOMAIN DataRows(out.lines) :
            (DataRows(out.lines)[g].country = DataRows(out.lines)[h].country
                 /\ DataRows(out.lines)[g].country # Null)
                => g = h

\* stage 9 has written a table with the Hong Kong row of latitude.csv and
\* the Hong Kong row it appends itself
C22_Witness ==
    /\ stage = 9 /\ pc = "done"
    /\ \E i \in DOMAIN input : input[i].country = S_Hong_Kong
    /\ Cardinality({g \in DOMAIN DataRows(out.lines) :
                       DataRows(out.lines)[g].country = S_Hong_Kong}) >= 2

\* stage 7 has written a table that lists a country twice, as countries.csv
\* does
DuplicateCountry7 ==
    /\ stage = 7 /\ pc = "done"
    /\ \E g, h \in DOMAIN DataRows(out.lines) :
           g # h /\ DataRows(out.lines)[g].country = DataRows(out.lines)[h].country
               /\ DataRows(out.lines)[g].country # Null

---------------------------------------------------------------------------
(* Properties of the exact-match dictionary when reference names collide.  *)

\* the names the dictionary comprehension of the running stage iterates over
IteratedNames ==
    IF stage = 3 THEN [i \in DOMAIN ref |-> Str(ref[i].name)] ELSE Unique(RefNames(ref))

\* the distinct reference entries that normalize to key
Entries(key) ==
    {IteratedNames[i] : i \in {j \in DOMAIN IteratedNames :
                                  normalize_name(IteratedNames[j]) = key}}

\* the one of them that comes last in iteration order
LastEntry(key) ==
    IteratedNames[CHOOSE i \in DOMAIN IteratedNames :
        /\ normalize_name(IteratedNames[i]) = key
        /\ \A j \in (i + 1)..Len(IteratedNames) : normalize_name(IteratedNames[j]) # key]

\* the keys several distinct entries normalize to
Collisions == {key \in DOMAIN lookup : Cardinality(Entries(key)) >= 2}

\* the mapping loop has the dictionary
Built == stage \in JoinStages /\ pc \in {"map", "stream", "done"}

---------------------------------------------------------------------------
(* Properties of the row count of the joins.                               *)

\* C24: a join stage that runs to its end writes exactly as many data rows
\* as its large input has, whatever reference table it is given.
C24_RowCount ==
    (stage \in JoinStages /\ pc = "done") => Len(DataRows(out.lines)) = Len(input)

\* stage 8 or 10 has finished on an input whose rows all have a region, with
\* a reference table that lists one country twice, and has written more
\* rows than it has read
C24_Witness ==
    /\ stage \in {8, 10} /\ pc = "done"
    /\ \A i \in DOMAIN input : input[i].key # Null
    /\ \E i, j \in DOMAIN ref : i # j /\ ref[i].name = ref[j].name /\ ref[i].name # Null
    /\ Len(DataRows(out.lines)) > Len(input)

---------------------------------------------------------------------------
(* Properties of the training-set file across runs (stage 11).             *)

\* stage 11 has run to its end and no handler has printed an exception
EndedClean11 ==
    stage = 11 /\ pc = "done" /\ \A k \in DOMAIN console : console[k] # "error"

\* C25: after a run of stage 11 that ends without an exception the training
\* set holds the rows of this run's input that pass the filter and nothing
\* of what the file held before, and the validation step reports a file only
\* if this run has written it.
C25_OnlyThisRun ==
    EndedClean11 =>
        /\ DataRows(IF out.exists THEN out.lines ELSE <<>>) = DropNa(input)
        /\ out.exists => Count(out.lines, StaleLine) = 0
        /\ (\E k \in DOMAIN console : console[k] = "validated") => writes > 0

\* a run over an input of which no row passes the filter has ended without
\* an exception; the file of the earlier run is still there and has been
\* validated
C25_Witness ==
    /\ EndedClean11
    /\ input # <<>> /\ DropNa(input) = <<>>
    /\ writes = 0
    /\ stale.exists /\ out = stale /\ Count(out.lines, StaleLine) = 1
    /\ \E k \in DOMAIN console : console[k] = "validated"

---------------------------------------------------------------------------
(* From the genre list of stage 2 to the label of stage 13.  to_csv writes *)
(* the list of an artist as its str(); stage 3 copies that text into the   *)
(* track_genre column of every track of the artist, and stage 13 reads the *)
(* label off it with extract_primary_genre.                                *)

\* str(list) of a list of strings: "['pop', 'rock']"
RECURSIVE str_items(_)
str_items(items) ==
    IF items = <<>> THEN <<>>
    ELSE (IF Len(items) = 1 THEN <<>> ELSE str_items(Front(items)) \o <<",", " ">>)
             \o <<Quote>> \o Last(items) \o <<Quote>>

str_list(items) == <<"[">> \o str_items(items) \o <<"]">>

\* the label stage 13 gives the tracks of an artist whose row of
\* artist_genres.csv is row
PrimaryLabel(row) == extract_primary_genre(str_list(row.track_genre))

\* the tables stage 2 can write from this input
PossibleTables ==
    Listings(groupby_artist(explode(
        SelectRows(input, {i \in DOMAIN input : input[i].artists # Null}))))

\* C26: the label of an artist is determined by the input alone: whichever
\* order stage 2 lists the genres of the artist in, stage 13 reads the same
\* label off the table.
C26_LabelDetermined ==
    (stage = 2 /\ pc = "done") =>
        \A t \in PossibleTables : \A g \in DOMAIN t :
            PrimaryLabel(t[g]) = PrimaryLabel(DataRows(out.lines)[g])

\* stage 2 has written an artist with the genres pop and rock, rock first:
\* the label is rock, and with the other order of the same set it is pop
C26_Witness ==
    /\ stage = 2 /\ pc = "done"
    /\ \E g \in DOMAIN DataRows(out.lines) :
           /\ DataRows(out.lines)[g].track_genre = <<F_rock, S_pop>>
           /\ PrimaryLabel(DataRows(out.lines)[g]) = F_rock
           /\ \E t \in PossibleTables :
                  /\ t[g].artist = DataRows(out.lines)[g].artist
                  /\ PrimaryLabel(t[g]) = S_pop

=============================================================================
